---- MODULE Spec2Model ----
(***************************************************************************)
(* Job admission (POST /act), the Run ledger (PostgresStore.save_run over  *)
(* the runs table) and the Redis Streams queue worker of teletran1.        *)
(***************************************************************************)
EXTENDS Integers, Sequences, FiniteSets, TLC

\* ------------------------------------------------------------------ bounds
MaxReq == 2
MaxFaults == 1
\* rate limiter: the limit and the window (seconds) configured for the
\* rate-limit key, and the clock's resolution
Limit == 1
Window == 1
TicksPerSecond == 2
\* steps table: save_step calls in flight and the step numbers they carry
MaxStepCalls == 3
MaxStepNo == 2

Reqs == 1..MaxReq
\* the worker specifications follow the job of the first admitted request
Jobs == {1}
Workers == {"w1", "w2"}
\* the requests sent to the rate-limit key, in the order they arrive
RLReqs == {1, 2, 3}
MaxRLReq == Cardinality(RLReqs)
WindowTicks == Window * TicksPerSecond
MaxTime == WindowTicks + 1

\* ------------------------------------------------------- program constants
QUEUE_MAX_RETRIES == 3

NULL == "NULL"
Keys == {NULL, "x"}

VARIABLES
    apc,        \* admission request -> position inside execute_action
    areq,       \* admission request -> its inputs (request body, query, policy verdict)
    aresp,      \* admission request -> what the caller received
    dupAtStart, \* admission request -> a Run with its key existed when it arrived
    runs,       \* the runs table: run id -> row
    idem,       \* idempotency mappings written to Redis (key -> run id)
    approvals,  \* run ids with a pending approval record
    stream,     \* the job stream (append-only), message id = position
    dlq,        \* the dead-letter stream
    delivered,  \* consumer group cursor: messages 1..delivered were handed out
    pel,        \* pending entries list: message id -> consumer
    acks,       \* message id -> number of effective XACKs
    wpc,        \* worker -> position inside start/_process_message
    wmsg,       \* worker -> message id it is processing (0: none)
    wdid,       \* worker -> terminal/retry actions done in this attempt
    execs,      \* run id -> number of times the job body was invoked
    scenario,   \* run id -> every attempt so far failed in the job body only
    faults,     \* infrastructure failures injected so far
    rclient,    \* deps._redis_client is set
    rclock,     \* time.time(), in ticks
    zset,       \* the sorted set of the rate-limit key: entries (member, score)
    rpc,        \* rate-limited request -> position inside dispatch
    rt,         \* rate-limited request -> its `now`
    rpath,      \* rate-limited request -> the branch of dispatch it took
    rres,       \* rate-limited request -> the response of dispatch
    rcalls,     \* rate-limited request -> number of call_next invocations
    rseq,       \* no two rate-limited requests were in flight together so far
    running,    \* worker -> QueueWorker.running
    steps,      \* the steps table: set of rows
    spc,        \* save_step call -> position inside save_step
    sdata,      \* save_step call -> its step_data
    lastsave    \* the last save_run call: table before, run_data, whether it returned

avars == <<apc, areq, aresp, dupAtStart, idem, approvals>>
wvars == <<dlq, delivered, pel, acks, wpc, wmsg, wdid, execs, scenario>>
xvars == <<running, steps, spc, sdata, lastsave>>
rlvars == <<rclient, rclock, zset, rpc, rt, rpath, rres, rcalls, rseq>>
vars == <<apc, areq, aresp, dupAtStart, runs, idem, approvals, stream, dlq,
          delivered, pel, acks, wpc, wmsg, wdid, execs, scenario, faults,
          rclient, rclock, zset, rpc, rt, rpath, rres, rcalls, rseq,
          running, steps, spc, sdata, lastsave>>

\* ---------------------------------------------------------------- ledger
RunFields == {"actor", "request_payload", "status", "autonomy_level",
              "trace_id", "idempotency_key", "completed_at", "error_message"}

Get(data, f) == IF f \in DOMAIN data THEN data[f] ELSE NULL
Count(data, f) == IF f \in DOMAIN data THEN data[f] ELSE 0

\* Run(**run_data): columns not given are NULL
NewRun(run_data) == [f \in RunFields |-> Get(run_data, f)]

UpdatedRun_ClearsOthers(row, run_data) ==
    [f \in RunFields |->
        IF f \in DOMAIN run_data THEN run_data[f]
        ELSE IF f \in {"actor", "request_payload", "status", "trace_id"} THEN row[f]
        ELSE NULL]

\* setattr(existing_run, key, value) for every key of run_data
UpdatedRun(row, run_data) ==
    [f \in RunFields |-> IF f \in DOMAIN run_data THEN run_data[f] ELSE row[f]]

\* nullable=False columns of the runs table
NotNullOk(id, row) ==
    /\ id # NULL
    /\ row.actor # NULL
    /\ row.request_payload # NULL
    /\ row.status # NULL
    /\ row.trace_id # NULL

\* UniqueConstraint('trace_id'), UniqueConstraint('idempotency_key'):
\* NULLs never collide
UniqueOk_NoKeyConstraint(tbl, id, row) ==
    \A j \in DOMAIN tbl \ {id} : tbl[j].trace_id # row.trace_id

UniqueOk(tbl, id, row) ==
    \A j \in DOMAIN tbl \ {id} :
        /\ tbl[j].trace_id # row.trace_id
        /\ row.idempotency_key # NULL =>
               tbl[j].idempotency_key # row.idempotency_key

save_run_Unchecked(tbl, run_data) ==
    LET id  == run_data["id"]
        row == IF id \in DOMAIN tbl
               THEN UpdatedRun(tbl[id], run_data)
               ELSE NewRun(run_data)
    IN  [ok |-> TRUE,
         tbl |-> [j \in DOMAIN tbl \cup {id} |-> IF j = id THEN row ELSE tbl[j]]]

\* PostgresStore.save_run: select by id, update in place or insert, commit.
\* The result is the table after the commit, or ok = FALSE when the commit
\* raises IntegrityError (the table is then unchanged).
save_run(tbl, run_data) ==
    LET id  == run_data["id"]
        row == IF id \in DOMAIN tbl
               THEN UpdatedRun(tbl[id], run_data)
               ELSE NewRun(run_data)
    IN  IF NotNullOk(id, row) /\ UniqueOk(tbl, id, row)
        THEN [ok |-> TRUE,
              tbl |-> [j \in DOMAIN tbl \cup {id} |->
                          IF j = id THEN row ELSE tbl[j]]]
        ELSE [ok |-> FALSE, tbl |-> tbl]

RunsWithKey(k) == {j \in DOMAIN runs : runs[j].idempotency_key = k}

\* a store or queue call may raise; the number of such failures is bounded
Outcomes == IF faults < MaxFaults THEN {TRUE, FALSE} ELSE {TRUE}
Charge(ok) == faults' = IF ok THEN faults ELSE faults + 1

\* -------------------------------------------------------------- admission
Policies == {"denied", "approval", "allowed"}
Traces == {"own", "no_trace"}

NoReq == [key |-> NULL, policy |-> "allowed", background |-> FALSE,
          webhook |-> FALSE, trace |-> "own"]
NoResp == [status |-> "none", run_id |-> NULL]

\* str(uuid.uuid4()): a fresh id per request
RunId(r) == ToString(r)
RunIds == {RunId(r) : r \in Reqs}

\* get_trace_id: the span's trace id, or the literal "no_trace"
TraceId(r) == IF areq[r].trace = "own" THEN ToString(r) ELSE "no_trace"

Respond(r, st, id) ==
    /\ apc' = [apc EXCEPT ![r] = "done"]
    /\ aresp' = [aresp EXCEPT ![r] = [status |-> st, run_id |-> id]]

\* approvals.create_pending_approval(redis, run_id, ...): writes the
\* approval record of the run
create_pending_approval(id) == approvals' = approvals \cup {id}

ApprovalBranch_FallsThrough(r) ==
    /\ create_pending_approval(RunId(r))
    /\ apc' = [apc EXCEPT ![r] = "save"]
    /\ UNCHANGED aresp

\* if requires_approval: create_pending_approval(redis, run_id, ...) and
\* return ActResponse(status="pending_approval"); no Run is saved
ApprovalBranch(r) ==
    /\ create_pending_approval(RunId(r))
    /\ Respond(r, "pending_approval", RunId(r))

\* execute_action up to the branch on requires_approval / background:
\* the idempotency step (a no-op), uuid4, PolicyGuard.validate_request,
\* the approval branch and the synchronous branch.
Receive(r) ==
    /\ apc[r] = "new"
    /\ \E k \in Keys, p \in Policies, bg \in BOOLEAN, wh \in BOOLEAN, t \in Traces :
        \* inputs a branch never reads are left at their defaults
        /\ (p # "allowed") => ~bg
        /\ ~(p = "allowed" /\ bg) => (~wh /\ t = "own")
        /\ areq' = [areq EXCEPT ![r] = [key |-> k, policy |-> p, background |-> bg,
                                        webhook |-> wh, trace |-> t]]
        /\ dupAtStart' = [dupAtStart EXCEPT ![r] = k # NULL /\ RunsWithKey(k) # {}]
        /\ CASE p = "denied" ->
                  /\ Respond(r, "forbidden", NULL)
                  /\ UNCHANGED approvals
             [] p = "approval" -> ApprovalBranch(r)
             [] p = "allowed" /\ bg ->
                  /\ apc' = [apc EXCEPT ![r] = "save"]
                  /\ UNCHANGED <<aresp, approvals>>
             [] p = "allowed" /\ ~bg ->
                  /\ Respond(r, "sync", RunId(r))
                  /\ UNCHANGED approvals
    /\ UNCHANGED <<runs, idem, stream, faults>>
    /\ UNCHANGED <<wvars, rlvars, xvars>>

\* the run_data dict execute_action passes to save_run
AdmissionRunData(r) ==
    [id |-> RunId(r), actor |-> "actor", request_payload |-> ToString(r), status |-> "queued",
     autonomy_level |-> "L2", trace_id |-> TraceId(r), idempotency_key |-> areq[r].key]

\* postgres_store.save_run({... "status": "queued" ...}); an exception
\* (IntegrityError, database unreachable) leaves execute_action
SaveQueuedRun(r) ==
    /\ apc[r] = "save"
    /\ \E ok \in Outcomes :
        LET res == save_run(runs, AdmissionRunData(r)) IN
        /\ Charge(ok)
        /\ IF ok /\ res.ok
           THEN /\ runs' = res.tbl
                /\ apc' = [apc EXCEPT ![r] = "enqueue"]
                /\ UNCHANGED aresp
           ELSE /\ Respond(r, "error", NULL)
                /\ UNCHANGED runs
    /\ UNCHANGED <<areq, dupAtStart, idem, approvals, stream>>
    /\ UNCHANGED <<wvars, rlvars, xvars>>

\* the Job Message QueueProducer.enqueue publishes
JobMessage(r) ==
    [run_id |-> RunId(r), retry_count |-> 0, webhook_url |-> areq[r].webhook,
     valid |-> TRUE]

\* publish(message): append to the job stream, or raise
enqueue(r, ok) ==
    stream' = IF ok THEN Append(stream, JobMessage(r)) ELSE stream

\* job_id = await queue_producer.enqueue(...); return ActResponse(status="queued")
Enqueue(r) ==
    /\ apc[r] = "enqueue"
    /\ \E ok \in Outcomes :
        /\ Charge(ok)
        /\ enqueue(r, ok)
        /\ IF ok THEN Respond(r, "queued", RunId(r)) ELSE Respond(r, "error", NULL)
    /\ UNCHANGED <<areq, dupAtStart, runs, idem, approvals>>
    /\ UNCHANGED <<wvars, rlvars, xvars>>

\* ----------------------------------------------------------------- worker
Msg(w) == stream[wmsg[w]]

SetPc(w, pc) == wpc' = [wpc EXCEPT ![w] = pc]

\* an exception leaves _process_message: the loop in start() catches it
Escape(w) ==
    /\ wpc' = [wpc EXCEPT ![w] = "loop_error"]
    /\ wmsg' = [wmsg EXCEPT ![w] = 0]

NotScenario(id) ==
    scenario' = [j \in DOMAIN scenario |-> IF j = id THEN FALSE ELSE scenario[j]]

\* start(): `while self.running` at the top of an iteration
LoopTop(w) ==
    /\ wpc[w] = "idle"
    /\ SetPc(w, IF running[w] THEN "reading" ELSE "stopped")
    /\ UNCHANGED <<runs, stream, dlq, delivered, pel, acks, wmsg, wdid, execs,
                   scenario, faults>>
    /\ UNCHANGED <<avars, rlvars, xvars>>

\* stop(): self.running = False, from the signal handler's task
Stop(w) ==
    /\ running[w]
    /\ wpc[w] # "crashed"
    /\ running' = [running EXCEPT ![w] = FALSE]
    /\ UNCHANGED <<runs, stream, faults, steps, spc, sdata, lastsave>>
    /\ UNCHANGED <<avars, wvars, rlvars>>

Claim_FromStart(w) ==
    /\ wpc[w] = "reading"
    /\ \E m \in DOMAIN stream :
        /\ pel' = [n \in DOMAIN pel \cup {m} |-> IF n = m THEN w ELSE pel[n]]
        /\ wmsg' = [wmsg EXCEPT ![w] = m]
    /\ wdid' = [wdid EXCEPT ![w] = {}]
    /\ SetPc(w, "claimed")
    /\ UNCHANGED <<runs, stream, dlq, delivered, acks, execs, scenario, faults>>
    /\ UNCHANGED <<avars, rlvars, xvars>>

\* start(): xreadgroup(streams={stream: ">"}, count=1, block=QUEUE_BLOCK_MS):
\* the next message never delivered to the group goes to this consumer and
\* into the PEL; with none, the call returns empty and the loop continues
Claim(w) ==
    /\ wpc[w] = "reading"
    /\ \E ok \in Outcomes :
        /\ Charge(ok)
        /\ IF ok /\ delivered < Len(stream)
           THEN /\ delivered' = delivered + 1
                /\ pel' = [m \in DOMAIN pel \cup {delivered + 1} |->
                              IF m = delivered + 1 THEN w ELSE pel[m]]
                /\ wmsg' = [wmsg EXCEPT ![w] = delivered + 1]
                /\ wdid' = [wdid EXCEPT ![w] = {}]
                /\ SetPc(w, "claimed")
           ELSE /\ SetPc(w, IF ok THEN "idle" ELSE "loop_error")
                /\ UNCHANGED <<delivered, pel, wmsg, wdid>>
    /\ UNCHANGED <<runs, stream, dlq, acks, execs, scenario>>
    /\ UNCHANGED <<avars, rlvars, xvars>>

\* _parse_job: KeyError / JSONDecodeError on a malformed payload
ParseOk(m) == m.valid

\* message_data["run_id"]: KeyError when the field is missing
HasRunId(m) == m.run_id # NULL

\* what can be wrong with a payload: nothing, a context that is no JSON
\* (or a max_steps that is no integer), a required field missing
Poisons == {"none", "context", "run_id"}

Corrupt(m, kind) ==
    IF kind = "none" THEN m
    ELSE IF kind = "context" THEN [m EXCEPT !.valid = FALSE]
    ELSE [m EXCEPT !.valid = FALSE, !.run_id = NULL]

\* the run_data dict update_job_status passes to save_run
StatusData(id, status, error) ==
    LET base == [f \in {"id", "status"} |-> IF f = "id" THEN id ELSE status]
        done == IF status \in {"completed", "failed"}
                THEN base @@ ("completed_at" :> "utcnow") ELSE base
    IN  IF error # NULL THEN done @@ ("error_message" :> error) ELSE done

\* update_job_status: the ledger after the write, ok = FALSE when it raised
update_job_status(tbl, id, status, error) == save_run(tbl, StatusData(id, status, error))

\* _process_message up to the call of the job body:
\* _parse_job, then process_job's update_job_status("running")
StartJob(w) ==
    /\ wpc[w] = "claimed"
    /\ IF ~ParseOk(Msg(w))
       THEN /\ SetPc(w, "handler")
            /\ NotScenario(Msg(w).run_id)
            /\ UNCHANGED <<runs, faults>>
       ELSE \E ok \in Outcomes :
            LET res == update_job_status(runs, Msg(w).run_id, "running", NULL) IN
            /\ Charge(ok)
            /\ IF ok /\ res.ok
               THEN /\ runs' = res.tbl
                    /\ SetPc(w, "executing")
                    /\ UNCHANGED scenario
               ELSE /\ SetPc(w, "handler")
                    /\ NotScenario(Msg(w).run_id)
                    /\ UNCHANGED runs
    /\ UNCHANGED <<stream, dlq, delivered, pel, acks, wmsg, wdid, execs>>
    /\ UNCHANGED <<avars, rlvars, xvars>>

\* process_job: execute_agent_loop returns a result or raises
Execute(w) ==
    /\ wpc[w] = "executing"
    /\ execs' = [execs EXCEPT ![Msg(w).run_id] = @ + 1]
    /\ \/ /\ SetPc(w, "write_completed")
          /\ NotScenario(Msg(w).run_id)
       \/ /\ SetPc(w, "handler")
          /\ UNCHANGED scenario
    /\ UNCHANGED <<runs, stream, dlq, delivered, pel, acks, wmsg, wdid, faults>>
    /\ UNCHANGED <<avars, rlvars, xvars>>

\* process_job: execute_agent_loop never returns; nothing bounds the await
Hang(w) ==
    /\ wpc[w] = "executing"
    /\ faults < MaxFaults
    /\ faults' = faults + 1
    /\ execs' = [execs EXCEPT ![Msg(w).run_id] = @ + 1]
    /\ NotScenario(Msg(w).run_id)
    /\ SetPc(w, "hung")
    /\ UNCHANGED <<runs, stream, dlq, delivered, pel, acks, wmsg, wdid>>
    /\ UNCHANGED <<avars, rlvars, xvars>>

\* update_job_status(status="completed", result=result)
WriteCompleted(w) ==
    /\ wpc[w] = "write_completed"
    /\ \E ok \in Outcomes :
        LET res == update_job_status(runs, Msg(w).run_id, "completed", NULL) IN
        /\ Charge(ok)
        /\ IF ok /\ res.ok
           THEN /\ runs' = res.tbl
                /\ wdid' = [wdid EXCEPT ![w] = @ \cup {"completed"}]
                /\ SetPc(w, "success_webhook")
           ELSE /\ SetPc(w, "handler")
                /\ UNCHANGED <<runs, wdid>>
    /\ UNCHANGED <<stream, dlq, delivered, pel, acks, wmsg, execs, scenario>>
    /\ UNCHANGED <<avars, rlvars, xvars>>

\* WebhookNotifier.send_completion_webhook / send_failure_webhook returning:
\* it delivered, or gave up after its retries
notify(w, next) == SetPc(w, next)

\* if job.get("webhook_url"): send_webhook_notification(job, result, success=True)
\* inside the try block: when the call raises, the except block runs
SuccessWebhook(w) ==
    /\ wpc[w] = "success_webhook"
    /\ IF Msg(w).webhook_url
       THEN \E ok \in Outcomes :
            /\ Charge(ok)
            /\ IF ok THEN notify(w, "ack_success") ELSE SetPc(w, "handler")
       ELSE SetPc(w, "ack_success") /\ UNCHANGED faults
    /\ UNCHANGED <<runs, stream, dlq, delivered, pel, acks, wmsg, wdid, execs,
                   scenario>>
    /\ UNCHANGED <<avars, rlvars, xvars>>

\* redis.xack(stream, group, message_id): removes the entry from the PEL
xack(mid) ==
    /\ pel' = [m \in DOMAIN pel \ {mid} |-> pel[m]]
    /\ acks' = IF mid \in DOMAIN pel
               THEN [m \in DOMAIN acks \cup {mid} |->
                        IF m = mid THEN Count(acks, mid) + 1 ELSE acks[m]]
               ELSE acks

\* the xack that ends the try block; when it raises, the except block runs
AckSuccess(w) ==
    /\ wpc[w] = "ack_success"
    /\ \E ok \in Outcomes :
        /\ Charge(ok)
        /\ IF ok
           THEN /\ xack(wmsg[w])
                /\ SetPc(w, "idle")
                /\ wmsg' = [wmsg EXCEPT ![w] = 0]
           ELSE /\ SetPc(w, "handler")
                /\ UNCHANGED <<pel, acks, wmsg>>
    /\ UNCHANGED <<runs, stream, dlq, delivered, wdid, execs, scenario>>
    /\ UNCHANGED <<avars, rlvars, xvars>>

RetryData_NoIncrement(m) == m

RetryData_DropsWebhook(m) ==
    [m EXCEPT !.retry_count = m.retry_count + 1, !.webhook_url = FALSE]

\* _retry_job: retry_data = dict(message_data) with retry_count + 1
RetryData(m) == [m EXCEPT !.retry_count = m.retry_count + 1]

\* _move_to_dlq: dlq_data = dict(message_data) plus error, failed_at and
\* original_message_id
DlqData(mid, m, error) ==
    [run_id |-> m.run_id, retry_count |-> m.retry_count,
     webhook_url |-> m.webhook_url, valid |-> m.valid,
     error |-> error, original_message_id |-> mid]

\* if retry_count < self.settings.QUEUE_MAX_RETRIES
ShouldRetry_OffByOne(m) == m.retry_count <= QUEUE_MAX_RETRIES

ShouldRetry(m) == m.retry_count < QUEUE_MAX_RETRIES

\* the retry branch of the except block: _retry_job's xadd of the copy, then
\* its log line reading message_data["run_id"]
HandlerRetry_NoXadd(w) ==
    /\ wpc[w] = "handler"
    /\ ShouldRetry(Msg(w))
    /\ SetPc(w, "retry_sleep")
    /\ UNCHANGED <<stream, wmsg, wdid, scenario, faults>>
    /\ UNCHANGED <<runs, dlq, delivered, pel, acks, execs>>
    /\ UNCHANGED <<avars, rlvars, xvars>>

HandlerRetry(w) ==
    /\ wpc[w] = "handler"
    /\ ShouldRetry(Msg(w))
    /\ \E ok \in Outcomes :
        /\ Charge(ok)
        /\ IF ok
           THEN /\ stream' = Append(stream, RetryData(Msg(w)))
                /\ wdid' = [wdid EXCEPT ![w] = @ \cup {"retry"}]
                /\ IF HasRunId(Msg(w))
                   THEN SetPc(w, "retry_sleep") /\ UNCHANGED wmsg
                   ELSE Escape(w)
                /\ UNCHANGED scenario
           ELSE /\ Escape(w)
                /\ NotScenario(Msg(w).run_id)
                /\ UNCHANGED <<stream, wdid>>
    /\ UNCHANGED <<runs, dlq, delivered, pel, acks, execs>>
    /\ UNCHANGED <<avars, rlvars, xvars>>

\* _retry_job: await asyncio.sleep(QUEUE_RETRY_DELAY_SECONDS)
RetrySleep(w) ==
    /\ wpc[w] = "retry_sleep"
    /\ SetPc(w, "ack_failure")
    /\ UNCHANGED <<runs, stream, dlq, delivered, pel, acks, wmsg, wdid, execs,
                   scenario, faults>>
    /\ UNCHANGED <<avars, rlvars, xvars>>

\* the else branch of the except block: _move_to_dlq's xadd, then its log
\* line reading message_data["run_id"]
HandlerDlq(w) ==
    /\ wpc[w] = "handler"
    /\ ~ShouldRetry(Msg(w))
    /\ \E ok \in Outcomes :
        /\ Charge(ok)
        /\ IF ok
           THEN /\ dlq' = Append(dlq, DlqData(wmsg[w], Msg(w), "error"))
                /\ wdid' = [wdid EXCEPT ![w] = @ \cup {"dlq"}]
                /\ IF HasRunId(Msg(w))
                   THEN SetPc(w, "dlq_status") /\ UNCHANGED wmsg
                   ELSE Escape(w)
                /\ UNCHANGED scenario
           ELSE /\ Escape(w)
                /\ NotScenario(Msg(w).run_id)
                /\ UNCHANGED <<dlq, wdid>>
    /\ UNCHANGED <<runs, stream, delivered, pel, acks, execs>>
    /\ UNCHANGED <<avars, rlvars, xvars>>

\* update_job_status(run_id, status="failed", error=str(e)) after the DLQ write
DlqStatus(w) ==
    /\ wpc[w] = "dlq_status"
    /\ \E ok \in Outcomes :
        LET res == update_job_status(runs, Msg(w).run_id, "failed", "error") IN
        /\ Charge(ok)
        /\ IF ok /\ res.ok
           THEN /\ runs' = res.tbl
                /\ SetPc(w, "failure_webhook")
                /\ UNCHANGED <<wmsg, scenario>>
           ELSE /\ Escape(w)
                /\ NotScenario(Msg(w).run_id)
                /\ UNCHANGED runs
    /\ UNCHANGED <<stream, dlq, delivered, pel, acks, wdid, execs>>
    /\ UNCHANGED <<avars, rlvars, xvars>>

\* if message_data.get("webhook_url"): job = _parse_job(message_data);
\* send_webhook_notification(job, {"error": ...}, success=False)
\* inside the except block: when either raises, it leaves _process_message
FailureWebhook(w) ==
    /\ wpc[w] = "failure_webhook"
    /\ IF Msg(w).webhook_url
       THEN IF ParseOk(Msg(w))
            THEN \E ok \in Outcomes :
                 /\ Charge(ok)
                 /\ IF ok THEN notify(w, "ack_failure") /\ UNCHANGED wmsg
                          ELSE Escape(w)
            ELSE Escape(w) /\ UNCHANGED faults
       ELSE SetPc(w, "ack_failure") /\ UNCHANGED <<wmsg, faults>>
    /\ UNCHANGED <<runs, stream, dlq, delivered, pel, acks, wdid, execs,
                   scenario>>
    /\ UNCHANGED <<avars, rlvars, xvars>>

\* the xack that ends the except block; when it raises, the exception
\* leaves _process_message
AckFailure(w) ==
    /\ wpc[w] = "ack_failure"
    /\ \E ok \in Outcomes :
        /\ Charge(ok)
        /\ IF ok
           THEN /\ xack(wmsg[w])
                /\ SetPc(w, "idle")
                /\ wmsg' = [wmsg EXCEPT ![w] = 0]
           ELSE /\ Escape(w)
                /\ UNCHANGED <<pel, acks>>
    /\ UNCHANGED <<runs, stream, dlq, delivered, wdid, execs, scenario>>
    /\ UNCHANGED <<avars, rlvars, xvars>>

LoopError_Exits(w) ==
    /\ wpc[w] = "loop_error"
    /\ SetPc(w, "stopped")
    /\ UNCHANGED <<runs, stream, dlq, delivered, pel, acks, wmsg, wdid, execs,
                   scenario, faults>>
    /\ UNCHANGED <<avars, rlvars, xvars>>

\* start(): except Exception: log, await asyncio.sleep(1), next iteration
LoopError(w) ==
    /\ wpc[w] = "loop_error"
    /\ SetPc(w, "idle")
    /\ UNCHANGED <<runs, stream, dlq, delivered, pel, acks, wmsg, wdid, execs,
                   scenario, faults>>
    /\ UNCHANGED <<avars, rlvars, xvars>>

\* the worker process dies while it holds a claimed message
Crash(w) ==
    /\ wmsg[w] # 0
    /\ wpc[w] # "crashed"
    /\ faults < MaxFaults
    /\ faults' = faults + 1
    /\ SetPc(w, "crashed")
    /\ UNCHANGED <<runs, stream, dlq, delivered, pel, acks, wmsg, wdid, execs,
                   scenario>>
    /\ UNCHANGED <<avars, rlvars, xvars>>

\* ----------------------------------------------------------- rate limiter
\* RateLimitMiddleware.dispatch for the requests of one rate-limit key
NoRLResp == [status |-> "none", retry_after |-> 0, oldest |-> -1]

RLSetPc(q, pc) == rpc' = [rpc EXCEPT ![q] = pc]

\* int(x) for x = n / d: truncation toward zero
IntTrunc(n, d) == IF n >= 0 THEN n \div d ELSE -((-n) \div d)

\* dispatch up to the try block: exempted path, absent client, now = time.time()
RLStart(q) ==
    /\ rpc[q] = "new"
    /\ \A p \in RLReqs : p < q => rpc[p] # "new"
    /\ rt' = [rt EXCEPT ![q] = rclock]
    /\ rseq' = (rseq /\ \A p \in RLReqs \ {q} : rpc[p] \in {"new", "done"})
    /\ \E exempted \in BOOLEAN :
        IF exempted
        THEN /\ rpath' = [rpath EXCEPT ![q] = "exempt"]
             /\ RLSetPc(q, "call_plain")
        ELSE IF ~rclient
        THEN /\ rpath' = [rpath EXCEPT ![q] = "noclient"]
             /\ RLSetPc(q, "call_plain")
        ELSE /\ rpath' = [rpath EXCEPT ![q] = "limiter"]
             /\ RLSetPc(q, "purge")
    /\ UNCHANGED <<rclient, rclock, zset, rres, rcalls, faults>>
    /\ UNCHANGED <<runs, stream, avars, wvars, xvars>>

FailOpen_Reject(q) ==
    /\ rpath' = [rpath EXCEPT ![q] = "failed_open"]
    /\ rres' = [rres EXCEPT ![q] = [status |-> "limited",
                                    retry_after |-> Window, oldest |-> -1]]
    /\ RLSetPc(q, "done")

\* except Exception: log, return await call_next(request)
FailOpen(q) ==
    /\ rpath' = [rpath EXCEPT ![q] = "failed_open"]
    /\ RLSetPc(q, "call_plain")
    /\ UNCHANGED rres

\* redis.zremrangebyscore(key, 0, now - window): both bounds inclusive
Purge(q) ==
    /\ rpc[q] = "purge"
    /\ \E ok \in Outcomes :
        /\ Charge(ok)
        /\ IF ok
           THEN /\ zset' = {e \in zset : e.score > rt[q] - WindowTicks}
                /\ RLSetPc(q, "count")
                /\ UNCHANGED <<rpath, rres>>
           ELSE /\ FailOpen(q)
                /\ UNCHANGED zset
    /\ UNCHANGED <<rclient, rclock, rt, rcalls, rseq>>
    /\ UNCHANGED <<runs, stream, avars, wvars, xvars>>

OverLimit_Strict(count) == count > Limit

\* if current_count >= limit
OverLimit(count) == count >= Limit

\* current_count = redis.zcard(key) and the comparison with the limit
Zcard(q) ==
    /\ rpc[q] = "count"
    /\ \E ok \in Outcomes :
        /\ Charge(ok)
        /\ IF ok
           THEN /\ RLSetPc(q, IF OverLimit(Cardinality(zset)) THEN "range" ELSE "add")
                /\ UNCHANGED <<rpath, rres>>
           ELSE FailOpen(q)
    /\ UNCHANGED <<rclient, rclock, zset, rt, rcalls, rseq>>
    /\ UNCHANGED <<runs, stream, avars, wvars, xvars>>

\* the lowest score of the sorted set (zrange(key, 0, 0, withscores=True))
OldestScore == CHOOSE s \in {e.score : e \in zset} : \A e \in zset : s <= e.score

\* retry_after = int(window - (now - oldest_time)) + 1
RetryAfter(now, oldest_time) ==
    IntTrunc(WindowTicks - (now - oldest_time), TicksPerSecond) + 1

Reject_Records(q) ==
    /\ rpc[q] = "range"
    /\ zset' = zset \cup {[member |-> q, score |-> rt[q]]}
    /\ rres' = [rres EXCEPT ![q] = [status |-> "limited", retry_after |-> Window,
                                    oldest |-> -1]]
    /\ RLSetPc(q, "done")
    /\ UNCHANGED <<rclient, rclock, rt, rpath, rcalls, rseq, faults>>
    /\ UNCHANGED <<runs, stream, avars, wvars, xvars>>

\* the 429 branch: zrange for the oldest entry, retry_after, the response
Reject(q) ==
    /\ rpc[q] = "range"
    /\ \E ok \in Outcomes :
        /\ Charge(ok)
        /\ IF ok
           THEN /\ rres' = [rres EXCEPT ![q] =
                      IF zset # {}
                      THEN [status |-> "limited",
                            retry_after |-> RetryAfter(rt[q], OldestScore),
                            oldest |-> OldestScore]
                      ELSE [status |-> "limited", retry_after |-> Window,
                            oldest |-> -1]]
                /\ RLSetPc(q, "done")
                /\ UNCHANGED rpath
           ELSE FailOpen(q)
    /\ UNCHANGED <<rclient, rclock, zset, rt, rcalls, rseq>>
    /\ UNCHANGED <<runs, stream, avars, wvars, xvars>>

\* redis.zadd(key, {str(uuid.uuid4()): now})
Zadd(q) ==
    /\ rpc[q] = "add"
    /\ \E ok \in Outcomes :
        /\ Charge(ok)
        /\ IF ok
           THEN /\ zset' = zset \cup {[member |-> q, score |-> rt[q]]}
                /\ RLSetPc(q, "expire")
                /\ UNCHANGED <<rpath, rres>>
           ELSE /\ FailOpen(q)
                /\ UNCHANGED zset
    /\ UNCHANGED <<rclient, rclock, rt, rcalls, rseq>>
    /\ UNCHANGED <<runs, stream, avars, wvars, xvars>>

\* redis.expire(key, window + 10): the key outlives every entry of the window
Expire(q) ==
    /\ rpc[q] = "expire"
    /\ \E ok \in Outcomes :
        /\ Charge(ok)
        /\ IF ok
           THEN /\ RLSetPc(q, "call_try")
                /\ UNCHANGED <<rpath, rres>>
           ELSE FailOpen(q)
    /\ UNCHANGED <<rclient, rclock, zset, rt, rcalls, rseq>>
    /\ UNCHANGED <<runs, stream, avars, wvars, xvars>>

\* response = await call_next(request) inside the try block: an exception
\* of the application is caught by the same except clause
CallNextInTry(q) ==
    /\ rpc[q] = "call_try"
    /\ rcalls' = [rcalls EXCEPT ![q] = @ + 1]
    /\ \E ok \in Outcomes :
        /\ Charge(ok)
        /\ IF ok
           THEN /\ rres' = [rres EXCEPT ![q] = [NoRLResp EXCEPT !.status = "passed"]]
                /\ RLSetPc(q, "done")
           ELSE /\ RLSetPc(q, "call_plain")
                /\ UNCHANGED rres
    /\ UNCHANGED <<rclient, rclock, zset, rt, rpath, rseq>>
    /\ UNCHANGED <<runs, stream, avars, wvars, xvars>>

\* return await call_next(request) outside the try block (exempted path,
\* absent client, except clause): an exception of the application propagates
CallNext(q) ==
    /\ rpc[q] = "call_plain"
    /\ rcalls' = [rcalls EXCEPT ![q] = @ + 1]
    /\ \E ok \in Outcomes :
        /\ Charge(ok)
        /\ rres' = [rres EXCEPT ![q] =
              [NoRLResp EXCEPT !.status = IF ok THEN "passed" ELSE "error"]]
    /\ RLSetPc(q, "done")
    /\ UNCHANGED <<rclient, rclock, zset, rt, rpath, rseq>>
    /\ UNCHANGED <<runs, stream, avars, wvars, xvars>>

\* time passes
Tick ==
    /\ rclock < MaxTime
    /\ rclock' = rclock + 1
    /\ UNCHANGED <<rclient, zset, rpc, rt, rpath, rres, rcalls, rseq, faults>>
    /\ UNCHANGED <<runs, stream, avars, wvars, xvars>>

InitLimiter ==
    /\ rclock = 0
    /\ zset = {}
    /\ rpc = [q \in RLReqs |-> "new"]
    /\ rt = [q \in RLReqs |-> 0]
    /\ rpath = [q \in RLReqs |-> "none"]
    /\ rres = [q \in RLReqs |-> NoRLResp]
    /\ rcalls = [q \in RLReqs |-> 0]
    /\ rseq = TRUE

\* ------------------------------------------------------------ steps table
\* PostgresStore.save_step over the steps table
StepCalls == 1..MaxStepCalls
StepNos == 1..MaxStepNo
\* a run id no row of runs carries
NoRun == "0"
NoStep == [id |-> 0, run_id |-> NULL, step_number |-> 0]

\* the constraints of steps: primary key on id, foreign key run_id -> runs.id
StepInsertOk(tbl, row) ==
    /\ \A s \in tbl : s.id # row.id
    /\ row.run_id \in DOMAIN runs

\* save_step: step = Step(**step_data); session.add(step)
StepBegin(c) ==
    /\ spc[c] = "new"
    /\ \A b \in StepCalls : b < c => spc[b] # "new"
    /\ \E rid \in RunIds \cup {NoRun}, n \in StepNos :
        sdata' = [sdata EXCEPT ![c] = [id |-> c, run_id |-> rid, step_number |-> n]]
    /\ spc' = [spc EXCEPT ![c] = "added"]
    /\ UNCHANGED <<running, steps, lastsave, runs, stream, faults>>
    /\ UNCHANGED <<avars, wvars, rlvars>>

\* save_step: await session.commit(), the INSERT
StepCommit(c) ==
    /\ spc[c] = "added"
    /\ \E ok \in Outcomes :
        /\ Charge(ok)
        /\ IF ok /\ StepInsertOk(steps, sdata[c])
           THEN /\ steps' = steps \cup {sdata[c]}
                /\ spc' = [spc EXCEPT ![c] = "committed"]
           ELSE /\ spc' = [spc EXCEPT ![c] = "raised"]
                /\ UNCHANGED steps
    /\ UNCHANGED <<running, sdata, lastsave, runs, stream>>
    /\ UNCHANGED <<avars, wvars, rlvars>>

NextSteps ==
    \/ \E c \in StepCalls : StepBegin(c)
    \/ \E c \in StepCalls : StepCommit(c)

\* ------------------------------------------------------- save_run, alone
\* a full record, as execute_action passes it
InsertData(id, k) ==
    [id |-> id, actor |-> "actor", request_payload |-> id, status |-> "queued",
     autonomy_level |-> "L2", trace_id |-> id, idempotency_key |-> k]

\* the run_data of the calls: full records and the worker's status updates
RunDatas ==
    {InsertData(id, k) : id \in RunIds, k \in Keys}
    \cup {StatusData(id, "running", NULL) : id \in RunIds}
    \cup {StatusData(id, "completed", NULL) : id \in RunIds}
    \cup {StatusData(id, "failed", "error") : id \in RunIds}

\* one call of save_run(run_data) on the ledger
SaveRunCall(run_data) ==
    LET res == save_run(runs, run_data) IN
    /\ runs' = IF res.ok THEN res.tbl ELSE runs
    /\ lastsave' = [before |-> runs, data |-> run_data, ok |-> res.ok]
    /\ UNCHANGED <<running, steps, spc, sdata, stream, faults>>
    /\ UNCHANGED <<avars, wvars, rlvars>>

NextLedger == \E run_data \in RunDatas : SaveRunCall(run_data)

NoSave == [before |-> <<>>, data |-> <<>>, ok |-> FALSE]

\* workers started (start() sets running), no save_step or save_run call yet
InitAux ==
    /\ running = [w \in Workers |-> TRUE]
    /\ steps = {}
    /\ spc = [c \in StepCalls |-> "new"]
    /\ sdata = [c \in StepCalls |-> NoStep]
    /\ lastsave = NoSave

\* the pipeline before any request, but for the ledger
InitRest ==
    /\ apc = [r \in Reqs |-> "new"]
    /\ areq = [r \in Reqs |-> NoReq]
    /\ aresp = [r \in Reqs |-> NoResp]
    /\ dupAtStart = [r \in Reqs |-> FALSE]
    /\ idem = <<>>
    /\ approvals = {}
    /\ stream = <<>>
    /\ dlq = <<>>
    /\ delivered = 0
    /\ pel = <<>>
    /\ acks = <<>>
    /\ wpc = [w \in Workers |-> "idle"]
    /\ wmsg = [w \in Workers |-> 0]
    /\ wdid = [w \in Workers |-> {}]
    /\ execs = [id \in RunIds |-> 0]
    /\ scenario = [id \in RunIds |-> TRUE]
    /\ faults = 0

\* the pipeline before any request
InitPipeline == InitRest /\ runs = <<>> /\ InitAux

\* after startup: init_redis() has set the client
Init == InitPipeline /\ rclient = TRUE /\ InitLimiter

\* the limiter with the client set or not (before init_redis, after close_redis)
InitRateLimit == InitPipeline /\ rclient \in BOOLEAN /\ InitLimiter

NextAdmission ==
    \/ \E r \in Reqs : Receive(r)
    \/ \E r \in Reqs : SaveQueuedRun(r)
    \/ \E r \in Reqs : Enqueue(r)

NextWorker ==
    \/ \E w \in Workers : LoopTop(w)
    \/ \E w \in Workers : Stop(w)
    \/ \E w \in Workers : Claim(w)
    \/ \E w \in Workers : StartJob(w)
    \/ \E w \in Workers : Execute(w)
    \/ \E w \in Workers : Hang(w)
    \/ \E w \in Workers : WriteCompleted(w)
    \/ \E w \in Workers : SuccessWebhook(w)
    \/ \E w \in Workers : AckSuccess(w)
    \/ \E w \in Workers : HandlerRetry(w)
    \/ \E w \in Workers : RetrySleep(w)
    \/ \E w \in Workers : HandlerDlq(w)
    \/ \E w \in Workers : DlqStatus(w)
    \/ \E w \in Workers : FailureWebhook(w)
    \/ \E w \in Workers : AckFailure(w)
    \/ \E w \in Workers : LoopError(w)
    \/ \E w \in Workers : Crash(w)

NextRateLimit ==
    \/ \E q \in RLReqs : RLStart(q)
    \/ \E q \in RLReqs : Purge(q)
    \/ \E q \in RLReqs : Zcard(q)
    \/ \E q \in RLReqs : Reject(q)
    \/ \E q \in RLReqs : Zadd(q)
    \/ \E q \in RLReqs : Expire(q)
    \/ \E q \in RLReqs : CallNextInTry(q)
    \/ \E q \in RLReqs : CallNext(q)
    \/ Tick

Next == NextAdmission \/ NextWorker \/ NextRateLimit \/ NextSteps \/ NextLedger

\* the pipeline once the requests of Jobs were admitted in background mode:
\* each has its queued Run in the ledger and its Job Message in the stream,
\* with a payload the worker can parse or not
InitWorker ==
    /\ apc = [r \in Reqs |-> IF r \in Jobs THEN "done" ELSE "new"]
    /\ areq \in [Reqs -> [key : {NULL}, policy : {"allowed"}, background : BOOLEAN,
                          webhook : BOOLEAN, trace : {"own"}]]
    /\ \A r \in Reqs : areq[r].background = (r \in Jobs)
    /\ \A r \in Reqs : r \notin Jobs => areq[r] = NoReq
    /\ aresp = [r \in Reqs |-> IF r \in Jobs
                                THEN [status |-> "queued", run_id |-> RunId(r)]
                                ELSE NoResp]
    /\ dupAtStart = [r \in Reqs |-> FALSE]
    /\ runs = [id \in {RunId(r) : r \in Jobs} |->
                  NewRun(AdmissionRunData(CHOOSE r \in Jobs : RunId(r) = id))]
    /\ idem = <<>>
    /\ approvals = {}
    /\ stream \in {[i \in Jobs |-> Corrupt(JobMessage(i), kind)] : kind \in Poisons}
    /\ dlq = <<>>
    /\ delivered = 0
    /\ pel = <<>>
    /\ acks = <<>>
    /\ wpc = [w \in Workers |-> "idle"]
    /\ wmsg = [w \in Workers |-> 0]
    /\ wdid = [w \in Workers |-> {}]
    /\ execs = [id \in RunIds |-> 0]
    /\ scenario = [id \in RunIds |-> TRUE]
    /\ faults = 0
    /\ rclient = TRUE
    /\ InitLimiter
    /\ InitAux

Spec == Init /\ [][Next]_vars
SpecRateLimit == InitRateLimit /\ [][NextRateLimit]_vars

\* the steps table with every Run of RunIds in the ledger
InitSteps ==
    /\ InitRest
    /\ runs = [id \in RunIds |-> NewRun(InsertData(id, NULL))]
    /\ rclient = TRUE
    /\ InitLimiter
    /\ InitAux

SpecSteps == InitSteps /\ [][NextSteps]_vars
SpecLedger == Init /\ [][NextLedger]_vars
SpecAdmission == Init /\ [][NextAdmission]_vars
SpecWorker == InitWorker /\ [][NextWorker]_vars
\* the worker loop of a live process keeps taking steps
WorkerStep(w) ==
    \/ LoopTop(w) \/ Claim(w) \/ StartJob(w) \/ Execute(w) \/ Hang(w)
    \/ WriteCompleted(w)
    \/ SuccessWebhook(w) \/ AckSuccess(w) \/ HandlerRetry(w) \/ RetrySleep(w)
    \/ HandlerDlq(w) \/ DlqStatus(w) \/ FailureWebhook(w) \/ AckFailure(w)
    \/ LoopError(w)

FairSpecWorker == SpecWorker /\ \A w \in Workers : WF_vars(WorkerStep(w))

\* ------------------------------------------------------------- properties
BackgroundAdmission(r) ==
    /\ apc[r] = "done"
    /\ areq[r].policy = "allowed"
    /\ areq[r].background

Published(id) == \E i \in DOMAIN stream : stream[i].run_id = id

\* C1: admissions in background mode that carry the same non-null
\* idempotency key all return the same run_id, the first as queued and the
\* later ones as duplicate, and exactly one Run exists for the key.
C1_IdempotentAdmission ==
    \A r1, r2 \in Reqs :
        ( /\ r1 # r2
          /\ faults = 0
          /\ BackgroundAdmission(r1) /\ BackgroundAdmission(r2)
          /\ areq[r1].key # NULL /\ areq[r1].key = areq[r2].key )
        => /\ aresp[r1].run_id # NULL
           /\ aresp[r1].run_id = aresp[r2].run_id
           /\ {aresp[r1].status, aresp[r2].status} = {"queued", "duplicate"}
           /\ Cardinality(RunsWithKey(areq[r1].key)) = 1

\* C2: an admission whose idempotency key already had a Run when it arrived
\* creates no Run, writes no idempotency mapping and publishes no Job Message.
C2_DuplicateSideEffectFree ==
    \A r \in Reqs :
        dupAtStart[r] =>
            /\ RunId(r) \notin DOMAIN runs
            /\ \A k \in DOMAIN idem : idem[k] # RunId(r)
            /\ ~Published(RunId(r))

C2_Witness ==
    \E r \in Reqs : dupAtStart[r] /\ BackgroundAdmission(r)

\* C3: in every reachable state of the ledger at most one Run carries a given
\* non-null idempotency key.
C3_OneRunPerKey ==
    \A k \in Keys \ {NULL} : Cardinality(RunsWithKey(k)) <= 1

C3_Witness ==
    \E r1, r2 \in Reqs :
        /\ r1 # r2
        /\ BackgroundAdmission(r1) /\ BackgroundAdmission(r2)
        /\ areq[r1].key # NULL /\ areq[r1].key = areq[r2].key
        /\ areq[r1].trace = "own" /\ areq[r2].trace = "own"
        /\ Cardinality(RunsWithKey(areq[r1].key)) = 1

\* C4: when admission has finished and left a Run in status queued, a Job
\* Message for that Run was published to the job stream.
C4_NoOrphanedQueuedRun ==
    \A r \in Reqs :
        ( /\ apc[r] = "done"
          /\ RunId(r) \in DOMAIN runs
          /\ runs[RunId(r)].status = "queued" )
        => Published(RunId(r))

AttemptEnded(mid) == \A w \in Workers : wmsg[w] # mid

\* C5: every claimed message whose processing attempt has ended was
\* acknowledged exactly once.
C5_AckExactlyOnce ==
    \A mid \in 1..delivered :
        AttemptEnded(mid) => Count(acks, mid) = 1

\* C6: a message is acknowledged only after, in the same attempt, the Run was
\* persisted as completed, a retry copy was added, or the dead-letter entry
\* was written.
C6_AckOnlyAfterAction ==
    [][\A w \in Workers :
          (wmsg[w] # 0 /\ Count(acks', wmsg[w]) > Count(acks, wmsg[w]))
          => wdid[w] \cap {"completed", "retry", "dlq"} # {}]_vars

C6_Witness ==
    \E mid \in DOMAIN acks : acks[mid] = 1 /\ stream[mid].retry_count < QUEUE_MAX_RETRIES

\* C7: no message in the job stream has a retry_count above QUEUE_MAX_RETRIES.
C7_RetryBound ==
    \A i \in DOMAIN stream : stream[i].retry_count <= QUEUE_MAX_RETRIES

C7_Witness ==
    \E i \in DOMAIN stream : stream[i].retry_count = QUEUE_MAX_RETRIES

MessagesOf(id) == SelectSeq(stream, LAMBDA m : m.run_id = id)
\* the retry_count of each retry copy of a job, in the order they were added
Copies(id) ==
    LET ms == MessagesOf(id) IN [i \in 1..(Len(ms) - 1) |-> ms[i + 1].retry_count]
DlqOf(id) == {i \in DOMAIN dlq : dlq[i].run_id = id}

\* C8: for a job whose every attempt fails in the job body (and no store or
\* queue call fails): the retry copies carry retry_count 1, 2, ... in order,
\* the body runs at most QUEUE_MAX_RETRIES + 1 times, and once the
\* dead-letter entry is written and that attempt has ended the body has run
\* exactly QUEUE_MAX_RETRIES + 1 times, QUEUE_MAX_RETRIES copies were added,
\* there is exactly one dead-letter entry and the Run is failed.
C8_RetryChain ==
    \A id \in DOMAIN runs :
        scenario[id] =>
            /\ Copies(id) = [i \in 1..Len(Copies(id)) |-> i]
            /\ Len(Copies(id)) <= QUEUE_MAX_RETRIES
            /\ execs[id] <= Len(Copies(id)) + 1
            /\ Cardinality(DlqOf(id)) <= 1
            /\ ( /\ DlqOf(id) # {}
                 /\ \A i \in DlqOf(id) : AttemptEnded(dlq[i].original_message_id) )
               => /\ execs[id] = QUEUE_MAX_RETRIES + 1
                  /\ Len(Copies(id)) = QUEUE_MAX_RETRIES
                  /\ runs[id].status = "failed"

C8_Witness ==
    \E id \in DOMAIN runs :
        /\ scenario[id]
        /\ DlqOf(id) # {}
        /\ \A i \in DlqOf(id) : AttemptEnded(dlq[i].original_message_id)
        /\ execs[id] = QUEUE_MAX_RETRIES + 1
        /\ runs[id].status = "failed"

\* C9: a message held by a crashed worker is eventually delivered to another,
\* running worker of the group.
C9_CrashedMessageRedelivered ==
    \A w \in Workers :
        (wpc[w] = "crashed") ~>
            (\E w2 \in Workers \ {w} : wpc[w2] # "crashed" /\ wmsg[w2] = wmsg[w])

\* C10: no write changes a Run that is completed or failed, none moves a
\* running Run back to queued, and a Run becomes completed only from running.
C10_StatusForwardOnly ==
    [][\A id \in DOMAIN runs :
          /\ runs[id].status \in {"completed", "failed"}
                => runs'[id].status = runs[id].status
          /\ runs[id].status = "running" => runs'[id].status # "queued"
          /\ (runs'[id].status = "completed" /\ runs[id].status # "completed")
                => runs[id].status = "running"]_vars

\* the entries of the key whose score lies inside the window that ends at now
InWindow(now) == {e \in zset : e.score > now - WindowTicks}

\* requests 1..q went through the limiter one after the other, the store
\* answered every call, and q arrived less than a window after the first
SequentialBurst(q) ==
    /\ rseq
    /\ faults = 0
    /\ \A p \in 1..q : rpath[p] = "limiter"
    /\ rt[q] - rt[1] < WindowTicks

\* C11: when one actor sends its requests one after the other within the
\* window, starting from an empty window, the first Limit of them are
\* passed on to the application and every later one receives 429.
C11_FirstNPass ==
    \A q \in RLReqs :
        (SequentialBurst(q) /\ rpc[q] = "done") =>
            /\ (q <= Limit) => (rres[q].status = "passed" /\ rcalls[q] = 1)
            /\ (q > Limit) => (rres[q].status = "limited" /\ rcalls[q] = 0)

C11_Witness ==
    /\ SequentialBurst(MaxRLReq)
    /\ \A q \in RLReqs : rpc[q] = "done"
    /\ rres[MaxRLReq].status = "limited"
    /\ \A q \in 1..Limit : rres[q].status = "passed"

\* C12: every 429 carries a retry_after that is at most the window length
\* and equals the window length minus the age of the oldest entry of the
\* window, also when the rejection happens at the instant of that entry.
C12_RetryAfterWithinWindow ==
    \A q \in RLReqs :
        (rres[q].status = "limited" /\ rres[q].oldest >= 0) =>
            /\ rres[q].retry_after <= Window
            /\ rres[q].retry_after * TicksPerSecond
                   = WindowTicks - (rt[q] - rres[q].oldest)

\* C13: the number of entries of the key inside the trailing window never
\* exceeds the limit, whatever the interleaving of the requests' steps.
C13_WindowCountBounded == Cardinality(InWindow(rclock)) <= Limit

\* C14: a request that found the store client absent, or one of whose store
\* calls raised, is passed on to the application and never answered 429.
C14_FailOpen ==
    \A q \in RLReqs :
        rpath[q] \in {"noclient", "failed_open"} =>
            /\ rres[q].status # "limited"
            /\ rpc[q] = "done" => rcalls[q] >= 1

C14_Witness ==
    \E q \in RLReqs :
        /\ rpath[q] = "failed_open"
        /\ rpc[q] = "done"
        /\ rres[q].status = "passed"
        /\ Cardinality(zset) >= Limit

\* the notifier is called for the message worker w holds
NotifierCalled(w) ==
    /\ wpc[w] \in {"success_webhook", "failure_webhook"}
    /\ Msg(w).webhook_url
    /\ ParseOk(Msg(w))

\* C15: whatever the outcome of a webhook delivery, the worker's next step is
\* the acknowledgment of the claimed message, and the delivery leaves the
\* ledger, the job stream and the dead-letter stream as they were.
C15_WebhookFailureHarmless ==
    [][\A w \in Workers :
          (NotifierCalled(w) /\ wpc'[w] \notin {wpc[w], "crashed"})
          => /\ wpc'[w] \in {"ack_success", "ack_failure"}
             /\ runs' = runs /\ stream' = stream /\ dlq' = dlq]_vars

\* C16: a message whose payload cannot be parsed has no retry copy in the
\* job stream, and once its processing attempt has ended it is in the
\* dead-letter stream.
C16_PoisonBypassesRetry ==
    \A i \in DOMAIN stream :
        ~ParseOk(stream[i]) =>
            /\ stream[i].retry_count = 0
            /\ (i <= delivered /\ AttemptEnded(i))
                  => \E j \in DOMAIN dlq : dlq[j].original_message_id = i

\* C17: once a message of a Run is in the dead-letter stream and its
\* processing attempt has ended, the Run is failed (or dead_letter) and
\* carries the error message.
C17_TerminalFailureInLedger ==
    \A j \in DOMAIN dlq :
        (dlq[j].run_id \in DOMAIN runs /\ AttemptEnded(dlq[j].original_message_id))
        => /\ runs[dlq[j].run_id].status \in {"failed", "dead_letter"}
           /\ runs[dlq[j].run_id].error_message # NULL

\* C18: while the approval of a run is pending, the job stream holds no Job
\* Message of that run.
C18_NoJobBeforeApproval ==
    \A id \in approvals : ~Published(id)

C18_Witness ==
    \E r1, r2 \in Reqs :
        /\ aresp[r1].status = "pending_approval"
        /\ RunId(r1) \in approvals
        /\ aresp[r2].status = "queued"
        /\ Published(RunId(r2))

\* C19: an admission that returned a run_id as queued or pending_approval
\* has a Run with that id and that status in the ledger.
C19_ReturnedRunPersisted ==
    \A r \in Reqs :
        aresp[r].status \in {"queued", "pending_approval"} =>
            /\ aresp[r].run_id \in DOMAIN runs
            /\ runs[aresp[r].run_id].status = aresp[r].status

\* C20: a job body that never returns is cut off: the worker executing it
\* reaches the failure handling (or its process dies).
C20_HungJobTimesOut ==
    \A w \in Workers :
        (wpc[w] = "hung") ~> (wpc[w] \in {"handler", "crashed"})

\* worker w is inside process_job, after the write of status running and
\* before the return of execute_agent_loop
InProcessJob(w) == wpc[w] \in {"executing", "hung"}

\* C21: no two workers are inside process_job for the same Run at once.
C21_SingleWriterPerRun ==
    \A w1, w2 \in Workers :
        (w1 # w2 /\ InProcessJob(w1) /\ InProcessJob(w2))
        => Msg(w1).run_id # Msg(w2).run_id

C21_Witness ==
    \E w1, w2 \in Workers :
        /\ w1 # w2
        /\ InProcessJob(w1)
        /\ wpc[w2] = "retry_sleep"
        /\ Msg(w2).run_id = Msg(w1).run_id

\* C22: no two rows of the steps table carry the same run_id and the same
\* step_number.
C22_StepNumbersUnique ==
    \A a, b \in steps :
        (a.run_id = b.run_id /\ a.step_number = b.step_number) => a = b

C24_RetryCopyFrame ==
    [][Len(stream') > Len(stream) =>
          /\ Len(stream') = Len(stream) + 1
          /\ \E w \in Workers :
                /\ wpc[w] = "handler"
                /\ stream'[Len(stream')].run_id = Msg(w).run_id
                /\ stream'[Len(stream')].webhook_url = Msg(w).webhook_url
                /\ stream'[Len(stream')].valid = Msg(w).valid
                /\ stream'[Len(stream')].retry_count = Msg(w).retry_count + 1
          /\ \A i, j \in DOMAIN stream' :
                (i < j /\ stream'[i].run_id = stream'[j].run_id)
                => stream'[i].retry_count <= stream'[j].retry_count]_vars

C24_Witness ==
    /\ Len(stream) >= 3
    /\ stream[1].webhook_url
    /\ stream[3].retry_count = 2

\* C25: while the worker that added a retry copy is still in its retry
\* delay, no other worker is inside process_job for a later message of that
\* Run.
C25_RetryDelayObserved ==
    \A w1, w2 \in Workers :
        (w1 # w2 /\ wpc[w1] = "retry_sleep" /\ InProcessJob(w2))
        => ~(wmsg[w2] > wmsg[w1] /\ Msg(w2).run_id = Msg(w1).run_id)

\* C26: a worker whose loop caught an exception goes back to the top of the
\* loop, and the loop is left only from its top with running false.
C26_LoopSurvivesErrors ==
    [][\A w \in Workers :
          /\ wpc[w] = "loop_error" => wpc'[w] \in {"loop_error", "idle"}
          /\ (wpc'[w] = "stopped" /\ wpc[w] # "stopped")
                => (wpc[w] = "idle" /\ ~running[w])]_vars

C26_Witness ==
    \E w \in Workers :
        /\ wpc[w] = "claimed"
        /\ faults > 0
        /\ \E m \in DOMAIN pel : pel[m] = w /\ m # wmsg[w]

\* C27: a request answered 429 has no entry in the window, and a request
\* that arrives when every admitted entry is at least a window old is
\* admitted, whatever was denied in between.
C27_DeniedRecordsNothing ==
    /\ \A q \in RLReqs :
          rres[q].status = "limited" => \A e \in zset : e.member # q
    /\ \A q \in RLReqs :
          ( /\ rseq /\ faults = 0 /\ rpc[q] = "done"
            /\ \A p \in 1..q : rpath[p] = "limiter"
            /\ \A p \in 1..(q - 1) :
                  rres[p].status = "passed" => rt[q] - rt[p] >= WindowTicks )
          => rres[q].status = "passed"

C27_Witness ==
    /\ rseq /\ faults = 0
    /\ \A q \in 1..3 : rpath[q] = "limiter" /\ rpc[q] = "done"
    /\ rres[1].status = "passed"
    /\ rres[2].status = "limited"
    /\ rres[3].status = "passed"
    /\ rt[3] - rt[2] < WindowTicks

\* C28: while a Run is completed, no step adds a message of that Run to the
\* job stream or the dead-letter stream or runs its job body.
C28_CompletedIsFinal ==
    [][\A id \in DOMAIN runs :
          runs[id].status = "completed" =>
              /\ \A i \in DOMAIN stream' \ DOMAIN stream : stream'[i].run_id # id
              /\ \A j \in DOMAIN dlq' \ DOMAIN dlq : dlq'[j].run_id # id
              /\ execs'[id] = execs[id]]_vars

\* C29: dispatch calls call_next at most once per request.
C29_CallNextAtMostOnce ==
    \A q \in RLReqs : rcalls[q] <= 1

\* C30: a worker that holds the first message when stop() has been called
\* goes on to acknowledge it and then leaves start() (unless its process
\* dies).
C30_GracefulStop ==
    \A w \in Workers :
        (~running[w] /\ wmsg[w] = 1)
            ~> (wpc[w] = "crashed" \/ (wpc[w] = "stopped" /\ Count(acks, 1) = 1))

==============================================================================
